---- MODULE Spec2Model ----
(***************************************************************************)
(* Workspace automation (WST-DevClick): workspace resolution, repository   *)
(* reconciliation and cloning, and the staged pipeline of                  *)
(* WorkspaceAutomation.run, modelled from the Python sources.              *)
(*                                                                         *)
(* File names and typed input are sequences of characters; the configured  *)
(* workspace prefix and the Gradle key are single tokens of that alphabet. *)
(***************************************************************************)
EXTENDS Integers, Sequences, FiniteSets, TLC

(* ------------------------------ bounds --------------------------------- *)
\* highest workspace suffix present in the initial base directory
MaxSuffix == 3
\* longest line typed at the selection prompt
MaxInputLen == 2
\* number of times the selection prompt is shown before the model stops typing
MaxAsked == 2
\* longest configured repository list
MaxRepos == 3
\* longest gradle.properties content, in tokens
MaxPropsLen == 5
\* number of consecutive applications of configure_gradle_properties
MaxApply == 2
\* blocks of a build.gradle
MaxBlocks == 3
\* longest template, in tokens
MaxTemplateLen == 3
\* distinct modification times of the entries of build/libs
MaxMtime == 2
\* entries of build/libs
MaxLibs == 2

(* --------------------------- characters -------------------------------- *)
PREFIX == "workspace_v"
Digits == <<"0", "1", "2", "3", "4", "5", "6", "7", "8", "9">>
IsDigit(c) == \E d \in 0..9 : Digits[d + 1] = c
DigitVal(c) == CHOOSE d \in 0..9 : Digits[d + 1] = c

\* code point order of the characters used in names (str comparison in sorted())
CharOrd(c) ==
    IF IsDigit(c) THEN 48 + DigitVal(c)
    ELSE IF c = " " THEN 32
    ELSE IF c = "-" THEN 45
    ELSE IF c = "a" THEN 97
    ELSE IF c = PREFIX THEN 119
    ELSE 120

RECURSIVE Str(_)
\* str(version) of an f-string: the decimal digits of a positive integer
Str(n) == IF n < 10 THEN <<Digits[n + 1]>> ELSE Str(n \div 10) \o <<Digits[(n % 10) + 1]>>

\* f"{prefix}{version}"
WsName(version) == <<PREFIX>> \o Str(version)

RECURSIVE LexLess(_, _)
\* a < b for Python strings
LexLess(a, b) ==
    IF b = <<>> THEN FALSE
    ELSE IF a = <<>> THEN TRUE
    ELSE IF CharOrd(Head(a)) # CharOrd(Head(b)) THEN CharOrd(Head(a)) < CharOrd(Head(b))
    ELSE LexLess(Tail(a), Tail(b))

RECURSIVE SortedByName(_)
\* sorted(S, key=name) of a set of distinct names
SortedByName(S) ==
    IF S = {} THEN <<>>
    ELSE LET m == CHOOSE x \in S : \A y \in S \ {x} : LexLess(x, y)
         IN <<m>> \o SortedByName(S \ {m})

Range(s) == {s[i] : i \in 1..Len(s)}

(* ------------------------------ state ---------------------------------- *)
VARIABLES
    \* configuration (Config)
    repositories,        \* config.repositories: sequence of [name, branch, index]
    eclipse_repo_index,  \* config.eclipse_repo_index
    \* file system
    baseExists,          \* the workspace base directory exists
    fsDirs,              \* names of the directories directly under the base directory
    fsFiles,             \* names of the other entries directly under the base directory
    wsTree,              \* entry kind of each repository name inside the workspace in use
    ideFiles,            \* content of each IDE file of the designated project
    buildGradle,         \* the project holds a build.gradle / build.gradle.kts marker
    gradleProps,         \* content of the project's gradle.properties
    buildText,           \* content of the project's build.gradle, as tokens
    fs0,                 \* the base directory as it was when the program started
    \* WorkspaceAutomation.validate_prerequisites
    config_errors,       \* what Config.validate returned, while it is in use
    errors,              \* the errors list of validate_prerequisites
    \* WorkspaceManager.select_or_create_workspace
    existing,            \* the listed existing workspaces
    next_ws,             \* the next-new path shown in the menu
    asked,               \* how many times the prompt was shown
    workspace_path,      \* the resolved workspace
    is_new,
    lastInput,           \* the line or interrupt that made the prompt loop return
    \* WorkspaceAutomation.run
    pc,                  \* position of run / main
    existing_repos,
    missing_repos,
    toClone,             \* the list handed to clone_all_repositories
    clone_results,
    gitLog,              \* the git clone / checkout invocations made, in order
    cloning,             \* positions in toClone whose git clone process is running
    all_cloned,
    eclipse_workspace,   \* local of run: "unbound" until setup_project returns a pair
    written,             \* IDE files written by this run
    build_success,
    status,              \* the tag printed by the stage that ran last
    stages,              \* the stages started so far, in order
    runResult,           \* how run ended
    exitCode,            \* sys.exit code of main, -1 while running
    raised,              \* the step of run in which an exception reached run last
    \* repeated application of configure_gradle_properties
    applied,
    propsHistory,
    textHistory,         \* build.gradle before each application of configure_build_gradle
    \* ResourceManager.process_template
    template,            \* content of the template file, as tokens
    replacements,        \* the replacement dict, in iteration order: [key, value] entries
    rendered,            \* what process_template returned
    \* ResourceManager.deploy_config_files
    resources,           \* the template files present in the resources directory
    targets,             \* the deployed configuration files present in the primary repository
    deploy_result,       \* what deploy_config_files returned, with its deployed_files list
    \* BuildManager.find_war_file
    buildLibs,           \* build/libs: whether it exists and its entries in listing order
    war_file             \* what find_war_file returned

cfgVars == <<repositories, eclipse_repo_index>>
preVars == <<config_errors, errors>>
fsVars == <<baseExists, fsDirs, fsFiles, wsTree, ideFiles, buildGradle, gradleProps, buildText>>
selVars == <<existing, next_ws, asked, workspace_path, is_new, lastInput>>
cloneVars == <<existing_repos, missing_repos, toClone, clone_results, gitLog, cloning,
               all_cloned>>
stageVars == <<eclipse_workspace, written, build_success, status>>
runVars == <<pc, stageVars, stages, runResult, exitCode, raised>>
artVars == <<resources, targets, deploy_result, buildLibs, war_file>>
pureVars == <<applied, propsHistory, textHistory, template, replacements, rendered, artVars>>
vars == <<cfgVars, fs0, preVars, fsVars, selVars, cloneVars, runVars, pureVars>>

\* nothing deployed and nothing built yet
NoArtifacts ==
    /\ resources = {} /\ targets = {}
    /\ deploy_result = [called |-> FALSE, success |-> FALSE, deployed_files |-> <<>>]
    /\ buildLibs = [exists |-> FALSE, listing |-> <<>>]
    /\ war_file = "unset"

(* ------------------------ WorkspaceManager ----------------------------- *)
\* Path.exists() of base_path / name
PathExists(name) == baseExists /\ (name \in fsDirs \/ name \in fsFiles)

\* the base directory is listed without testing that it exists (not what the code does)
ListingOutcomes_no_exists_check == IF baseExists THEN {"ok", "oserror"} ELSE {"oserror"}

\* how enumerating the base directory can end (lines 24-28): a missing base directory
\* is never enumerated, an existing one may fail with an OSError
ListingOutcomes == IF baseExists THEN {"ok", "oserror"} ELSE {"ok"}

\* item.is_dir() and item.name.startswith(prefix), sorted by name
get_existing_workspaces ==
    IF ~baseExists THEN <<>>
    ELSE SortedByName({n \in fsDirs : Len(n) >= 1 /\ n[1] = PREFIX})

RECURSIVE FirstFree(_)
\* the while-loop of get_next_workspace_path started at `version`
FirstFree(version) ==
    IF ~PathExists(WsName(version)) THEN WsName(version) ELSE FirstFree(version + 1)

\* one past the highest numbered entry (not what the code does)
get_next_workspace_path_maxplus1 ==
    LET used == {v \in 1..(MaxSuffix + 2) : PathExists(WsName(v))}
    IN WsName(IF used = {} THEN 1 ELSE (CHOOSE v \in used : \A w \in used : w <= v) + 1)

get_next_workspace_path == FirstFree(1)


(* ------------------- the selection prompt (lines 61-82) ---------------- *)
InputChars == {" ", "-", "a", "0", "1", "2", "3"}
Inputs == UNION {[1..n -> InputChars] : n \in 0..MaxInputLen}

RECURSIVE LStrip(_)
LStrip(s) == IF s # <<>> /\ Head(s) = " " THEN LStrip(Tail(s)) ELSE s
RECURSIVE RStrip(_)
RStrip(s) == IF s # <<>> /\ s[Len(s)] = " " THEN RStrip(SubSeq(s, 1, Len(s) - 1)) ELSE s
\* str.strip()
Strip(s) == RStrip(LStrip(s))

RECURSIVE DigitsValue(_)
DigitsValue(s) ==
    IF s = <<>> THEN 0 ELSE 10 * DigitsValue(SubSeq(s, 1, Len(s) - 1)) + DigitVal(s[Len(s)])

\* int(choice): an optional sign followed by decimal digits, ValueError otherwise
ParseInt(s) ==
    LET neg == s # <<>> /\ Head(s) = "-"
        body == IF neg THEN Tail(s) ELSE s
        ok == body # <<>> /\ \A i \in 1..Len(body) : IsDigit(body[i])
    IN IF ok THEN [ok |-> TRUE, val |-> IF neg THEN 0 - DigitsValue(body) ELSE DigitsValue(body)]
       ELSE [ok |-> FALSE, val |-> 0]

\* every rejected line makes the function return the next-new path (not what the code does)
Decision_invalid_defaults_new(raw, n) ==
    LET choice == Strip(raw)
        p == ParseInt(choice)
    IN IF choice = <<>> THEN [kind |-> "default_new", idx |-> 0]
       ELSE IF ~p.ok THEN [kind |-> "default_new", idx |-> 0]
       ELSE IF 1 <= p.val /\ p.val <= n THEN [kind |-> "existing", idx |-> p.val]
       ELSE IF p.val = n + 1 THEN [kind |-> "new", idx |-> 0]
       ELSE [kind |-> "default_new", idx |-> 0]

\* choosing a listed workspace makes a new one (not what the code does)
Decision_existing_creates_new(raw, n) ==
    LET choice == Strip(raw)
        p == ParseInt(choice)
    IN IF choice = <<>> THEN [kind |-> "default_new", idx |-> 0]
       ELSE IF ~p.ok THEN [kind |-> "value_error", idx |-> 0]
       ELSE IF 1 <= p.val /\ p.val <= n + 1 THEN [kind |-> "new", idx |-> 0]
       ELSE [kind |-> "invalid_choice", idx |-> 0]

\* the lower bound of the range test is missing, so 0 and negative numbers index the
\* list from its end (not what the code does)
Decision_no_lower_bound(raw, n) ==
    LET choice == Strip(raw)
        p == ParseInt(choice)
    IN IF choice = <<>> THEN [kind |-> "default_new", idx |-> 0]
       ELSE IF ~p.ok THEN [kind |-> "value_error", idx |-> 0]
       ELSE IF 1 <= p.val /\ p.val <= n THEN [kind |-> "existing", idx |-> p.val]
       ELSE IF p.val <= 0 /\ n + p.val >= 1 THEN [kind |-> "existing", idx |-> n + p.val]
       ELSE IF p.val = n + 1 THEN [kind |-> "new", idx |-> 0]
       ELSE [kind |-> "invalid_choice", idx |-> 0]

\* what one line typed at the prompt leads to, with n existing workspaces listed
Decision(raw, n) ==
    LET choice == Strip(raw)
        p == ParseInt(choice)
    IN IF choice = <<>> THEN [kind |-> "default_new", idx |-> 0]
       ELSE IF ~p.ok THEN [kind |-> "value_error", idx |-> 0]
       ELSE IF 1 <= p.val /\ p.val <= n THEN [kind |-> "existing", idx |-> p.val]
       ELSE IF p.val = n + 1 THEN [kind |-> "new", idx |-> 0]
       ELSE [kind |-> "invalid_choice", idx |-> 0]

(* --------------------------- Config.validate --------------------------- *)
\* the entries Config.validate returns, in order (lines 166-182)
ConfigValidate(javaHomeExists, tomcatHomeExists, eclipsePathExists) ==
    (IF javaHomeExists THEN <<>> ELSE <<[warning |-> FALSE, what |-> "JAVA_HOME"]>>)
    \o (IF tomcatHomeExists THEN <<>> ELSE <<[warning |-> FALSE, what |-> "TOMCAT_HOME"]>>)
    \o (IF eclipsePathExists THEN <<>> ELSE <<[warning |-> TRUE, what |-> "ECLIPSE_PATH"]>>)

\* warnings are counted as errors (not what the code does)
PrerequisiteErrors_warnings_count(javaHomeExists, tomcatHomeExists, eclipsePathExists, gitInstalled) ==
    ConfigValidate(javaHomeExists, tomcatHomeExists, eclipsePathExists)
    \o (IF gitInstalled THEN <<>> ELSE <<[warning |-> FALSE, what |-> "git"]>>)

\* the errors list of validate_prerequisites (automation.py lines 71-84)
PrerequisiteErrors(javaHomeExists, tomcatHomeExists, eclipsePathExists, gitInstalled) ==
    SelectSeq(ConfigValidate(javaHomeExists, tomcatHomeExists, eclipsePathExists),
              LAMBDA e : ~e.warning)
    \o (IF gitInstalled THEN <<>> ELSE <<[warning |-> FALSE, what |-> "git"]>>)

(* ----------------------------- run: steps ------------------------------ *)
Returned(result) ==
    /\ pc' = "returned"
    /\ runResult' = result

NoInput == [kind |-> "none", line |-> <<>>]

\* validate_prerequisites up to its return (automation.py lines 71-84)
ValidatePrerequisites ==
    /\ pc = "start"
    /\ \E javaOk \in BOOLEAN, tomcatOk \in BOOLEAN, eclipseOk \in BOOLEAN, gitOk \in BOOLEAN :
          /\ config_errors' = ConfigValidate(javaOk, tomcatOk, eclipseOk)
          /\ errors' = PrerequisiteErrors(javaOk, tomcatOk, eclipseOk, gitOk)
    /\ pc' = "validated"
    /\ UNCHANGED <<cfgVars, fs0, fsVars, selVars, cloneVars, pureVars>>
    /\ UNCHANGED <<stageVars, stages, runResult, exitCode, raised>>

\* Step 1 of run (lines 86-93, 101-104): False is returned when errors is not empty
PrerequisitesChecked ==
    /\ pc = "validated"
    /\ IF errors # <<>>
       THEN Returned("False") /\ UNCHANGED preVars
       ELSE pc' = "select" /\ runResult' = runResult /\ config_errors' = <<>> /\ errors' = errors
    /\ UNCHANGED <<cfgVars, fs0, fsVars, selVars, cloneVars, pureVars>>
    /\ UNCHANGED <<stageVars, stages, exitCode, raised>>

\* select_or_create_workspace up to the first prompt (lines 48-59, 83-85);
\* enumerating an existing base directory may fail with an OSError, which run catches
\* (lines 119-121)
SelectStart ==
    /\ pc = "select"
    /\ stages' = Append(stages, "workspace")
    /\ \E listing \in ListingOutcomes :
          IF listing = "oserror"
          THEN /\ raised' = "workspace"
               /\ Returned("False")
               /\ UNCHANGED selVars
          ELSE /\ existing' = get_existing_workspaces
               /\ UNCHANGED <<runResult, raised, lastInput>>
               /\ IF get_existing_workspaces = <<>>
                  THEN /\ workspace_path' = get_next_workspace_path
                       /\ is_new' = TRUE
                       /\ pc' = "resolved"
                       /\ UNCHANGED <<next_ws, asked>>
                  ELSE /\ next_ws' = get_next_workspace_path
                       /\ asked' = 1
                       /\ pc' = "prompt"
                       /\ UNCHANGED <<workspace_path, is_new>>
    /\ UNCHANGED <<cfgVars, fs0, preVars, fsVars, cloneVars, pureVars>>
    /\ UNCHANGED <<stageVars, exitCode>>

\* one line typed at the prompt (lines 63-79)
PromptInput ==
    /\ pc = "prompt"
    /\ \E raw \in Inputs :
          LET d == Decision(raw, Len(existing)) IN
          CASE d.kind = "default_new" ->
                  /\ workspace_path' = get_next_workspace_path
                  /\ is_new' = TRUE
                  /\ pc' = "resolved"
                  /\ lastInput' = [kind |-> "line", line |-> raw]
                  /\ asked' = asked
            [] d.kind = "existing" ->
                  /\ workspace_path' = existing[d.idx]
                  /\ is_new' = FALSE
                  /\ pc' = "resolved"
                  /\ lastInput' = [kind |-> "line", line |-> raw]
                  /\ asked' = asked
            [] d.kind = "new" ->
                  /\ workspace_path' = next_ws
                  /\ is_new' = TRUE
                  /\ pc' = "resolved"
                  /\ lastInput' = [kind |-> "line", line |-> raw]
                  /\ asked' = asked
            [] OTHER ->
                  \* invalid_choice or value_error: an error line, then the prompt again
                  /\ asked < MaxAsked
                  /\ asked' = asked + 1
                  /\ pc' = "prompt"
                  /\ UNCHANGED <<workspace_path, is_new, lastInput>>
    /\ UNCHANGED <<existing, next_ws>>
    /\ UNCHANGED <<cfgVars, fs0, preVars, fsVars, cloneVars, pureVars>>
    /\ UNCHANGED <<stageVars, stages, runResult, exitCode, raised>>

\* the interrupt is not caught at the prompt and leaves run (not what the code does)
PromptInterrupt_propagates ==
    /\ pc = "prompt"
    /\ lastInput' = [kind |-> "interrupt", line |-> <<>>]
    /\ Returned("KeyboardInterrupt")
    /\ UNCHANGED <<existing, next_ws, asked, workspace_path, is_new>>
    /\ UNCHANGED <<cfgVars, fs0, preVars, fsVars, cloneVars, pureVars>>
    /\ UNCHANGED <<stageVars, stages, exitCode, raised>>

\* KeyboardInterrupt raised by input() (lines 80-82)
PromptInterrupt ==
    /\ pc = "prompt"
    /\ lastInput' = [kind |-> "interrupt", line |-> <<>>]
    /\ workspace_path' = get_next_workspace_path
    /\ is_new' = TRUE
    /\ pc' = "resolved"
    /\ UNCHANGED <<existing, next_ws, asked>>
    /\ UNCHANGED <<cfgVars, fs0, preVars, fsVars, cloneVars, pureVars>>
    /\ UNCHANGED <<stageVars, stages, runResult, exitCode, raised>>

(* ------------------- workspace creation and repositories --------------- *)
RepoNames == {"A", "B", "C"}
Kinds == {"none", "dir", "file"}
IdeFileNames == {".project", ".classpath", "org.eclipse.jdt.core.prefs",
                 "org.eclipse.wst.common.project.facet.core.xml", "server.xml"}
EmptyTree == [n \in RepoNames |-> "none"]

\* lines 114-121 of run: create_workspace (mkdir, parents=True, exist_ok=True) when the
\* workspace is new; the mkdir may fail with an OSError, which run catches
CreateOrUse ==
    /\ pc = "resolved"
    /\ IF is_new
       THEN \E mk \in {"ok", "oserror"} :
               IF mk = "oserror"
               THEN /\ raised' = "workspace"
                    /\ Returned("False")
                    /\ UNCHANGED fsVars
               ELSE /\ baseExists' = TRUE
                    /\ fsDirs' = fsDirs \cup {workspace_path}
                    /\ wsTree' = EmptyTree
                    /\ ideFiles' = [ideFiles EXCEPT !["server.xml"] = "absent"]
                    /\ pc' = "repos"
                    /\ UNCHANGED <<runResult, raised>>
                    /\ UNCHANGED <<fsFiles, buildGradle, buildText, gradleProps>>
       ELSE /\ pc' = "repos"
            /\ UNCHANGED <<runResult, raised>>
            /\ UNCHANGED fsVars
    /\ lastInput' = NoInput
    /\ UNCHANGED <<existing, next_ws, asked, workspace_path, is_new>>
    /\ UNCHANGED <<cfgVars, fs0, preVars, cloneVars, pureVars>>
    /\ UNCHANGED <<stageVars, stages, exitCode>>

RECURSIVE ValidateLoop(_, _, _, _)
\* the for-loop of validate_workspace_repos from position i on (lines 93-98)
ValidateLoop(tree, i, ex, mi) ==
    IF i > Len(repositories) THEN <<ex, mi>>
    ELSE IF tree[repositories[i].name] = "dir"
         THEN ValidateLoop(tree, i + 1, Append(ex, repositories[i]), mi)
         ELSE ValidateLoop(tree, i + 1, ex, Append(mi, repositories[i]))

RECURSIVE ValidateLoop_exists_only(_, _, _, _)
\* the is_dir() half of the test dropped (not what the code does)
ValidateLoop_exists_only(tree, i, ex, mi) ==
    IF i > Len(repositories) THEN <<ex, mi>>
    ELSE IF tree[repositories[i].name] # "none"
         THEN ValidateLoop_exists_only(tree, i + 1, Append(ex, repositories[i]), mi)
         ELSE ValidateLoop_exists_only(tree, i + 1, ex, Append(mi, repositories[i]))

validate_workspace_repos_exists_only(tree) == ValidateLoop_exists_only(tree, 1, <<>>, <<>>)

\* validate_workspace_repos: <<existing_repos, missing_repos>> (lines 87-100)
validate_workspace_repos(tree) == ValidateLoop(tree, 1, <<>>, <<>>)

\* every repository is cloned again in an existing workspace (not what the code does)
Repos_clone_all ==
    /\ pc = "repos"
    /\ stages' = Append(stages, "clone")
    /\ IF is_new
       THEN /\ toClone' = repositories
            /\ UNCHANGED <<existing_repos, missing_repos>>
       ELSE LET v == validate_workspace_repos(wsTree) IN
            /\ existing_repos' = v[1]
            /\ missing_repos' = v[2]
            /\ toClone' = repositories
    /\ pc' = "clone"
    /\ UNCHANGED <<clone_results, gitLog, cloning, all_cloned>>
    /\ UNCHANGED <<cfgVars, fs0, preVars, fsVars, selVars, pureVars>>
    /\ UNCHANGED <<stageVars, runResult, exitCode, raised>>

\* Step 3 of run up to the call of clone_all_repositories (lines 128-155)
Repos ==
    /\ pc = "repos"
    /\ stages' = Append(stages, "clone")
    /\ IF is_new
       THEN /\ toClone' = repositories
            /\ UNCHANGED <<existing_repos, missing_repos>>
       ELSE LET v == validate_workspace_repos(wsTree) IN
            /\ existing_repos' = v[1]
            /\ missing_repos' = v[2]
            /\ toClone' = v[2]
    /\ pc' = "clone"
    /\ UNCHANGED <<clone_results, gitLog, cloning, all_cloned>>
    /\ UNCHANGED <<cfgVars, fs0, preVars, fsVars, selVars, pureVars>>
    /\ UNCHANGED <<stageVars, runResult, exitCode, raised>>

\* the loop gives up after the first failed clone (not what the code does)
NextToClone_stop_on_failure(results, repos) ==
    IF Len(results) < Len(repos) /\ \A i \in 1..Len(results) : results[i].success
    THEN Len(results) + 1 ELSE 0

\* for repo in repos (lines 180-182): position of the next repository, 0 when done
NextToClone(results, repos) ==
    IF Len(results) < Len(repos) THEN Len(results) + 1 ELSE 0

\* outcomes of the git clone subprocess: exit code 0, another exit code,
\* FileNotFoundError, any other exception (lines 124-172)
CloneOutcomes == {"ok", "exit_nonzero", "no_git", "error"}
\* outcomes of the git checkout subprocess: exit code 0, another exit code, an exception
CheckoutOutcomes == {"ok", "exit_nonzero", "error"}

\* the success flag clone_repository returns (lines 143-172)
clone_repository(branch, cloneOut, checkoutOut) ==
    IF cloneOut = "ok"
    THEN IF branch # "" THEN checkoutOut # "error" ELSE TRUE
    ELSE FALSE

\* the loop starts the next clone at once (not what the code does)
CloneIdle_no_wait == TRUE

\* clone_all_repositories is at the head of its loop: the clone_repository call before
\* has returned, after process.wait() (lines 141, 180-182)
CloneIdle == cloning = <<>>

\* clone_repository up to Popen (lines 112-132): the git clone process is started
CloneStart ==
    /\ pc = "clone"
    /\ CloneIdle
    /\ NextToClone(clone_results, toClone) # 0
    /\ cloning' = Append(cloning, NextToClone(clone_results, toClone))
    /\ gitLog' = Append(gitLog, <<"clone", toClone[NextToClone(clone_results, toClone)].name>>)
    /\ UNCHANGED <<existing_repos, missing_repos, toClone, clone_results, all_cloned>>
    /\ UNCHANGED <<cfgVars, fs0, preVars, fsVars, selVars, runVars, pureVars>>

\* the rest of clone_repository (lines 134-172) and of the iteration of
\* clone_all_repositories (lines 180-182): the process ends, the branch is checked out,
\* the result is appended; git clone succeeds only into a path that does not exist yet
CloneStep ==
    /\ pc = "clone"
    /\ cloning # <<>>
    /\ cloning' = Tail(cloning)
    /\ LET repo == toClone[Head(cloning)] IN
       \E cloneOut \in CloneOutcomes, checkoutOut \in CheckoutOutcomes :
          /\ cloneOut = "ok" => wsTree[repo.name] = "none"
          /\ (cloneOut # "ok" \/ repo.branch = "") => checkoutOut = "ok"
          /\ clone_results' = Append(clone_results,
                 [repo |-> repo.name,
                  success |-> clone_repository(repo.branch, cloneOut, checkoutOut)])
          /\ gitLog' = gitLog \o (IF cloneOut = "ok" /\ repo.branch # ""
                                   THEN <<<<"checkout", repo.name>>>> ELSE <<>>)
          /\ wsTree' = IF cloneOut = "ok" THEN [wsTree EXCEPT ![repo.name] = "dir"] ELSE wsTree
    /\ UNCHANGED <<existing_repos, missing_repos, toClone, all_cloned>>
    /\ UNCHANGED <<baseExists, fsDirs, fsFiles, ideFiles, buildGradle, buildText, gradleProps>>
    /\ UNCHANGED <<cfgVars, fs0, preVars, selVars, runVars, pureVars>>

\* the pipeline stops when no repository could be cloned (not what the code does)
ProcessCloneResults_halt_on_zero ==
    /\ pc = "clone"
    /\ NextToClone(clone_results, toClone) = 0
    /\ all_cloned' = \A i \in 1..Len(clone_results) : clone_results[i].success
    /\ IF clone_results # <<>> /\ \A i \in 1..Len(clone_results) : ~clone_results[i].success
       THEN Returned("False")
       ELSE pc' = "resources" /\ runResult' = runResult
    /\ UNCHANGED <<existing_repos, missing_repos, toClone, clone_results, gitLog, cloning>>
    /\ UNCHANGED <<cfgVars, fs0, preVars, fsVars, selVars, pureVars>>
    /\ UNCHANGED <<stageVars, stages, exitCode, raised>>

\* "Process clone results" (lines 157-167): a warning at most, then on to Step 3
ProcessCloneResults ==
    /\ pc = "clone"
    /\ NextToClone(clone_results, toClone) = 0
    /\ all_cloned' = \A i \in 1..Len(clone_results) : clone_results[i].success
    /\ pc' = "resources"
    /\ UNCHANGED <<existing_repos, missing_repos, toClone, clone_results, gitLog, cloning>>
    /\ UNCHANGED <<cfgVars, fs0, preVars, fsVars, selVars, pureVars>>
    /\ UNCHANGED <<stageVars, stages, runResult, exitCode, raised>>

(* --------------------- gradle.properties (BuildManager) ---------------- *)
KEY == "org.gradle.java.home"
NL == "\n"
PropChars == {KEY, "#", " ", "=", "x", NL}
\* config.java_home, a Windows path
JAVA_HOME == <<"C:", "\\", "jdk">>

\* str.replace('\\', '/')
ReplaceBackslash(s) == [i \in 1..Len(s) |-> IF s[i] = "\\" THEN "/" ELSE s[i]]

RECURSIVE ReadLinesFrom(_, _)
\* f.readlines(): every line keeps its newline, the last one may have none
ReadLinesFrom(content, cur) ==
    IF content = <<>> THEN (IF cur = <<>> THEN <<>> ELSE <<cur>>)
    ELSE IF Head(content) = NL THEN <<Append(cur, NL)>> \o ReadLinesFrom(Tail(content), <<>>)
    ELSE ReadLinesFrom(Tail(content), Append(cur, Head(content)))
ReadLines(content) == ReadLinesFrom(content, <<>>)

RECURSIVE WriteLines(_)
\* f.writelines(lines): the lines one after the other, nothing added
WriteLines(lines) == IF lines = <<>> THEN <<>> ELSE Head(lines) \o WriteLines(Tail(lines))

RECURSIVE LStripWs(_)
LStripWs(s) == IF s # <<>> /\ Head(s) \in {" ", NL} THEN LStripWs(Tail(s)) ELSE s
RECURSIVE RStripWs(_)
RStripWs(s) ==
    IF s # <<>> /\ s[Len(s)] \in {" ", NL} THEN RStripWs(SubSeq(s, 1, Len(s) - 1)) ELSE s
\* line.strip()
StripLine(line) == RStripWs(LStripWs(line))

StartsWith(s, pre) == Len(s) >= Len(pre) /\ SubSeq(s, 1, Len(pre)) = pre

\* line.strip().startswith('org.gradle.java.home')
IsActiveLine(line) == StartsWith(StripLine(line), <<KEY>>)
\* line.strip().startswith('# org.gradle.java.home')
IsCommentedLine(line) == StartsWith(StripLine(line), <<"#", " ", KEY>>)

\* f'org.gradle.java.home={java_path}\n'
JavaHomeLine == <<KEY, "=">> \o ReplaceBackslash(JAVA_HOME) \o <<NL>>

\* the for-loop with its two break branches (lines 149-160): position replaced, 0 for none
FirstMatch(lines) ==
    LET hits == {i \in 1..Len(lines) : IsActiveLine(lines[i]) \/ IsCommentedLine(lines[i])}
    IN IF hits = {} THEN 0 ELSE CHOOSE i \in hits : \A j \in hits : i <= j

\* the new content of an existing gradle.properties (lines 141-168)
configure_gradle_properties(content) ==
    LET lines == ReadLines(content)
        i == FirstMatch(lines)
    IN IF i # 0 THEN WriteLines([lines EXCEPT ![i] = JavaHomeLine])
       ELSE WriteLines(Append(lines, JavaHomeLine))

(* --------------------- BuildManager: build.gradle ---------------------- *)
\* build.gradle is a sequence of tokens; each token stands for the text of its name
SRC == "sourceSets"
OB == "{"
CB == "}"
TEST == "test {"
ECLIPSE == "eclipse {"
ECLIPSE_NOSPACE == "eclipse{"
CLASSPATH == "classpath {"
CO == "/*"
CC == "*/"
GradleTokens == {SRC, OB, CB, TEST, ECLIPSE, ECLIPSE_NOSPACE, CLASSPATH, CO, CC, NL, "x"}

\* tokens whose last character is an opening brace
IsOpen(t) == t \in {OB, TEST, ECLIPSE, ECLIPSE_NOSPACE, CLASSPATH}

\* least index >= from of seq holding a token of S, 0 when there is none
FirstAt(seq, from, S) ==
    LET hits == {i \in from..Len(seq) : seq[i] \in S}
    IN IF hits = {} THEN 0 ELSE CHOOSE i \in hits : \A j \in hits : i <= j

\* 'a' in text, for the two texts the code looks up
HasTestBlock(c) == \E i \in 1..Len(c) : c[i] = TEST
HasEclipseBlock(c) == \E i \in 1..Len(c) : c[i] = ECLIPSE
\* '/*' in text: the token itself, or the characters of "*/" followed by "*/"
HasCommentOpen(c) ==
    \E i \in 1..Len(c) : c[i] = CO \/ (c[i] = CC /\ i < Len(c) /\ c[i + 1] = CC)

\* content.split('sourceSets')[1].split('test {')[0] (line 192); needs SRC in c
AfterSourceSetsBeforeTest(c) ==
    LET s1 == FirstAt(c, 1, {SRC})
        rest == SubSeq(c, s1 + 1, Len(c))
        s2 == FirstAt(rest, 1, {SRC})
        seg == IF s2 = 0 THEN rest ELSE SubSeq(rest, 1, s2 - 1)
        t == FirstAt(seg, 1, {TEST})
    IN IF t = 0 THEN seg ELSE SubSeq(seg, 1, t - 1)

RECURSIVE BodyEnd(_, _)
\* (?:[^{}]|\{[^}]*\})*\} matched from position i: the index of the closing brace
\* that ends the match, 0 when it does not match
BodyEnd(c, i) ==
    IF i > Len(c) THEN 0
    ELSE IF c[i] = CB THEN i
    ELSE IF IsOpen(c[i])
         THEN (IF FirstAt(c, i + 1, {CB}) = 0 THEN 0 ELSE BodyEnd(c, FirstAt(c, i + 1, {CB}) + 1))
         ELSE BodyEnd(c, i + 1)

RECURSIVE SkipNL(_, _)
\* \s* from position i: the first position that is not whitespace
SkipNL(c, i) == IF i <= Len(c) /\ c[i] = NL THEN SkipNL(c, i + 1) ELSE i

\* sourceSets\s*\{ at position p: the index of the opening brace, 0 when no match
SourceSetsOpen(c, p) ==
    IF c[p] = SRC /\ SkipNL(c, p + 1) <= Len(c) /\ c[SkipNL(c, p + 1)] = OB
    THEN SkipNL(c, p + 1) ELSE 0

\* re.search of (sourceSets\s*\{[^}]*?)(\s+test\s*\{[^}]*?\}[^}]*?\*/?) (lines 196-197)
AlreadyCommented(c) ==
    \E p \in 1..Len(c) :
        /\ SourceSetsOpen(c, p) # 0
        /\ \E q \in (SourceSetsOpen(c, p) + 2)..Len(c) :
              /\ c[q] = TEST /\ c[q - 1] = NL
              /\ \A k \in (SourceSetsOpen(c, p) + 1)..(q - 1) : c[k] # CB
              /\ FirstAt(c, q + 1, {CB}) # 0
              /\ \E st \in (FirstAt(c, q + 1, {CB}) + 1)..Len(c) :
                    /\ c[st] \in {CO, CC}
                    /\ \A k \in (FirstAt(c, q + 1, {CB}) + 1)..(st - 1) : c[k] # CB

\* first match of (\n)(\s+)(test\s*\{(?:[^{}]|\{[^}]*\})*\}) (line 202): the index of
\* its test token, 0 when there is no match
FirstTestMatch(c) ==
    LET hits == {q \in 3..Len(c) : /\ c[q] = TEST /\ c[q - 1] = NL /\ c[q - 2] = NL
                                   /\ BodyEnd(c, q + 1) # 0}
    IN IF hits = {} THEN 0 ELSE CHOOSE q \in hits : \A j \in hits : q <= j

\* re.sub(test_pattern, comment_test, content, count=1) (lines 203-206)
CommentTest(c) ==
    LET q == FirstTestMatch(c) IN
    IF q = 0 THEN c
    ELSE SubSeq(c, 1, q - 1) \o <<CO>> \o SubSeq(c, q, BodyEnd(c, q + 1)) \o <<CC>>
           \o SubSeq(c, BodyEnd(c, q + 1) + 1, Len(c))

\* the text inserted at lines 222-231
eclipse_block == <<NL, ECLIPSE, NL, CLASSPATH, NL, "x", NL, CB, NL, CB, NL>>

\* end of the first match of (sourceSets\s*\{(?:[^{}]|\{[^}]*\})*\}) (lines 226-230),
\* 0 when there is no match
SourceSetsEnd(c) ==
    LET hits == {p \in 1..Len(c) : SourceSetsOpen(c, p) # 0
                                   /\ BodyEnd(c, SourceSetsOpen(c, p) + 1) # 0}
    IN IF hits = {} THEN 0
       ELSE BodyEnd(c, SourceSetsOpen(c, CHOOSE p \in hits : \A j \in hits : p <= j) + 1)

\* lines 191-210: the content after the test sourceSets step
AfterTestStep(c) ==
    IF HasTestBlock(c) /\ ~HasCommentOpen(AfterSourceSetsBeforeTest(c)) /\ ~AlreadyCommented(c)
    THEN CommentTest(c) ELSE c

\* lines 212-233: the content after the eclipse block step
AfterEclipseStep(c) ==
    IF ~HasEclipseBlock(c) /\ SourceSetsEnd(c) # 0
    THEN SubSeq(c, 1, SourceSetsEnd(c)) \o eclipse_block \o SubSeq(c, SourceSetsEnd(c) + 1, Len(c))
    ELSE c

\* configure_build_gradle on an existing build.gradle (lines 185-245): the success flag
\* and the content left in the file; io is the outcome of reading and writing the file
configure_build_gradle(c, io) ==
    IF io = "oserror" THEN [ok |-> FALSE, content |-> c]
    ELSE IF HasTestBlock(c) /\ FirstAt(c, 1, {SRC}) = 0
         THEN [ok |-> FALSE, content |-> c]     \* split(...)[1] raises IndexError
         ELSE [ok |-> TRUE, content |-> AfterEclipseStep(AfterTestStep(c))]

(* ------------------- ResourceManager: process_template ----------------- *)
\* a template is a sequence of tokens: plain text, or a whole placeholder ${key}
Text(t) == <<"text", t>>
Placeholder(key) == <<"${}", key>>
Keys == {"TOMCAT_PORT", "DB_NAME"}
TemplateTokens ==
    {Text("port="), Placeholder("TOMCAT_PORT"), Placeholder("DB_NAME"), Placeholder("UNKNOWN")}
\* str(value) of a replacement: plain text, empty, or text that itself holds a placeholder
Values ==
    {<<Text("8080")>>, <<>>, <<Placeholder("DB_NAME")>>, <<Placeholder("TOMCAT_PORT")>>,
     <<Text("port="), Placeholder("UNKNOWN")>>}

RECURSIVE first_occurrence_only(_, _, _)
\* content.replace(placeholder, value, 1) (not what the code does)
first_occurrence_only(content, placeholder, value) ==
    IF content = <<>> THEN <<>>
    ELSE IF Head(content) = placeholder THEN value \o Tail(content)
    ELSE <<Head(content)>> \o first_occurrence_only(Tail(content), placeholder, value)

RECURSIVE StrReplace(_, _, _)
\* content.replace(placeholder, value): every occurrence, left to right, the inserted
\* text not scanned again
StrReplace(content, placeholder, value) ==
    IF content = <<>> THEN <<>>
    ELSE (IF Head(content) = placeholder THEN value ELSE <<Head(content)>>)
            \o StrReplace(Tail(content), placeholder, value)

RECURSIVE process_template(_, _)
\* the loop of process_template (lines 39-41) over the dict in iteration order
process_template(content, items) ==
    IF items = <<>> THEN content
    ELSE process_template(StrReplace(content, Placeholder(Head(items).key), Head(items).value),
                          Tail(items))

(* ------------------------- run: the later stages ----------------------- *)
\* repositories[eclipse_repo_index] of a Python list: 1-based position, 0 when it raises
PyIndex(i) ==
    IF 0 <= i /\ i < Len(repositories) THEN i + 1
    ELSE IF i < 0 /\ 0 - i <= Len(repositories) THEN Len(repositories) + i + 1
    ELSE 0

\* Config.get_eclipse_repo (lines 157-164): position of the designated repository,
\* 0 when it raises (ValueError above the range, IndexError below it)
get_eclipse_repo == IF eclipse_repo_index >= Len(repositories) THEN 0 ELSE PyIndex(eclipse_repo_index)

\* kind of workspace_path / eclipse_repo['name']
ProjectKind == IF get_eclipse_repo = 0 THEN "none" ELSE wsTree[repositories[get_eclipse_repo].name]

Templates == {"config.properties", "rfxconfig.properties", "context.xml"}

\* the deployments list of deploy_config_files (resource_manager.py lines 164-168)
deployments ==
    <<[template |-> "config.properties", target |-> "src/config.properties"],
      [template |-> "rfxconfig.properties", target |-> "src/rfxconfig.properties"],
      [template |-> "context.xml", target |-> "WebContent/META-INF/context.xml"]>>

\* the templates at which reading, mkdir or writing can raise, or none of them
FailPoints == Templates \cup {"none"}

\* the loop of deploy_config_files from entry i on (lines 171-202): an absent template
\* is skipped, an exception is caught at line 199, and the verdict is whether
\* deployed_files is non-empty
RECURSIVE DeployFrom(_, _, _, _, _, _)
DeployFrom(i, kind, present, failAt, deployed, tgt) ==
    IF i > Len(deployments)
    THEN [called |-> TRUE, success |-> deployed # <<>>, deployed_files |-> deployed,
          targets |-> tgt]
    ELSE IF deployments[i].template \notin present
         THEN DeployFrom(i + 1, kind, present, failAt, deployed, tgt)
         ELSE IF kind = "file" \/ failAt = deployments[i].template
              THEN [called |-> TRUE, success |-> FALSE, deployed_files |-> deployed,
                    targets |-> tgt]
              ELSE DeployFrom(i + 1, kind, present, failAt,
                              Append(deployed, deployments[i].target),
                              tgt \cup {deployments[i].target})

\* deploy_config_files (lines 140-202) on a primary repository path of the given kind
deploy_config_files(kind, present, failAt, tgt) ==
    IF kind = "none"
    THEN [called |-> TRUE, success |-> FALSE, deployed_files |-> <<>>, targets |-> tgt]
    ELSE DeployFrom(1, kind, present, failAt, <<>>, tgt)

\* the success flag of setup_resources (resource_manager.py lines 259-289): that of
\* deploy_config_files, whatever the batch script did
setup_resources(present, failAt) ==
    deploy_config_files(wsTree[repositories[1].name], present, failAt, {}).success

\* Step 4 of run (lines 174-183)
ResourcesStage ==
    /\ pc = "resources"
    /\ stages' = Append(stages, "resources")
    /\ \E present \in SUBSET Templates, failAt \in FailPoints :
          status' = IF setup_resources(present, failAt) THEN "OK" ELSE "WARNING"
    /\ pc' = "ide"
    /\ UNCHANGED <<eclipse_workspace, written, build_success>>
    /\ UNCHANGED <<cfgVars, fs0, preVars, fsVars, selVars, cloneVars, pureVars, runResult, exitCode, raised>>

\* files setup_project writes only when they are absent (eclipse_manager.py lines 35, 82)
CreateIfAbsent == {".project", ".classpath"}

\* the files setup_project writes in a project directory holding `files`
\* (eclipse_manager.py lines 188-196)
FilesWritten(files) ==
    {f \in IdeFileNames : f \in CreateIfAbsent => files[f] = "absent"}

\* Step 5 of run (lines 190-200) with EclipseManager.setup_project (lines 178-199)
IdeStage ==
    /\ pc = "ide"
    /\ stages' = Append(stages, "ide")
    /\ IF ProjectKind = "dir"
       THEN /\ written' = FilesWritten(ideFiles)
            /\ ideFiles' = [f \in IdeFileNames |->
                              IF f \in FilesWritten(ideFiles) THEN "generated" ELSE ideFiles[f]]
            /\ eclipse_workspace' = "bound"
            /\ status' = "OK"
            /\ raised' = raised
       ELSE \* get_eclipse_repo raised, setup_project returned a bare False (unpacking
            \* raises TypeError) or open() raised under a non-directory: run prints ERROR
            /\ status' = "ERROR"
            /\ raised' = "ide"
            /\ UNCHANGED <<written, ideFiles, eclipse_workspace>>
    /\ pc' = "gradle"
    /\ UNCHANGED build_success
    /\ UNCHANGED <<baseExists, fsDirs, fsFiles, wsTree, buildGradle, buildText, gradleProps>>
    /\ UNCHANGED <<cfgVars, fs0, preVars, selVars, cloneVars, pureVars, runResult, exitCode>>

\* whether the three steps of configure_gradle_project succeed (build_manager.py
\* lines 133-139, 177-183, 247-253, 275-304)
configure_gradle_project(propsIo, gradleIo, libExists) ==
    /\ ProjectKind = "dir" /\ gradleProps.exists /\ propsIo = "ok"
    /\ ProjectKind = "dir" /\ buildGradle = "build.gradle"
       /\ configure_build_gradle(buildText, gradleIo).ok
    /\ ProjectKind = "dir" /\ libExists

\* Step 6 of run (lines 207-217); get_eclipse_repo is called outside any try
GradleStage ==
    /\ pc = "gradle"
    /\ IF get_eclipse_repo = 0
       THEN /\ Returned("Exception")
            /\ raised' = "gradle"
            /\ UNCHANGED <<stages, status, gradleProps, buildText>>
       ELSE /\ stages' = Append(stages, "gradle")
            /\ pc' = "build"
            /\ UNCHANGED <<runResult, raised>>
            /\ \E propsIo \in {"ok", "oserror"}, gradleIo \in {"ok", "oserror"},
                  libExists \in BOOLEAN :
                  /\ status' = IF configure_gradle_project(propsIo, gradleIo, libExists)
                               THEN "OK" ELSE "WARNING"
                  /\ gradleProps' =
                        IF ProjectKind = "dir" /\ gradleProps.exists /\ propsIo = "ok"
                        THEN [exists |-> TRUE,
                              content |-> configure_gradle_properties(gradleProps.content)]
                        ELSE gradleProps
                  /\ buildText' =
                        IF ProjectKind = "dir" /\ buildGradle = "build.gradle"
                        THEN configure_build_gradle(buildText, gradleIo).content
                        ELSE buildText
    /\ UNCHANGED <<eclipse_workspace, written, build_success>>
    /\ UNCHANGED <<baseExists, fsDirs, fsFiles, wsTree, ideFiles, buildGradle>>
    /\ UNCHANGED <<cfgVars, fs0, preVars, selVars, cloneVars, pureVars, exitCode>>

\* detect_build_system (build_manager.py lines 18-23)
detect_build_system ==
    IF ProjectKind = "dir" /\ buildGradle \in {"build.gradle", "build.gradle.kts"}
    THEN "gradle" ELSE "None"

\* outcomes of the gradle subprocess: exit code 0, CalledProcessError, FileNotFoundError,
\* any other OSError (which build_gradle_project does not catch)
BuildOutcomes == {"ok", "called_process_error", "file_not_found", "oserror"}

\* lines 226-244 of run: the WAR is looked up and deployed only after a successful build
AfterBuild(ok) == IF ok THEN "deploy" ELSE "tomcat"

\* Step 7 of run, the build (lines 224-227, 243-244) with build_project (lines 58-67)
BuildStage ==
    /\ pc = "build"
    /\ stages' = Append(stages, "build")
    /\ IF detect_build_system = "gradle"
       THEN \E out \in BuildOutcomes :
               IF out = "oserror"
               THEN /\ Returned("Exception")
                    /\ raised' = "build"
                    /\ UNCHANGED <<build_success, status>>
               ELSE /\ build_success' = (out = "ok")
                    /\ status' = IF out = "ok" THEN "OK" ELSE "WARNING"
                    /\ pc' = AfterBuild(out = "ok")
                    /\ UNCHANGED <<runResult, raised>>
       ELSE /\ build_success' = FALSE
            /\ status' = "WARNING"
            /\ pc' = AfterBuild(FALSE)
            /\ UNCHANGED <<runResult, raised>>
    /\ UNCHANGED <<eclipse_workspace, written>>
    /\ UNCHANGED <<cfgVars, fs0, preVars, fsVars, selVars, cloneVars, pureVars, exitCode>>

\* glob('*.war') over the listing of build/libs, in listing order
RECURSIVE WarFiles(_)
WarFiles(listing) ==
    IF listing = <<>> THEN <<>>
    ELSE IF Head(listing).ext = "war"
         THEN <<Head(listing)>> \o WarFiles(Tail(listing))
         ELSE WarFiles(Tail(listing))

\* find_war_file (build_manager.py lines 69-78): the first match of the glob, or None
find_war_file(libs) ==
    IF libs.exists /\ WarFiles(libs.listing) # <<>>
    THEN WarFiles(libs.listing)[1].name
    ELSE "None"

\* find_war_file and deploy_to_tomcat (lines 229-242 of run)
DeployStage ==
    /\ pc = "deploy"
    /\ stages' = Append(stages, "deploy")
    /\ \E warFound \in BOOLEAN, copy \in {"ok", "no_webapps", "copy_error"} :
          status' = IF warFound /\ copy = "ok" THEN "OK" ELSE "WARNING"
    /\ pc' = "tomcat"
    /\ UNCHANGED <<eclipse_workspace, written, build_success>>
    /\ UNCHANGED <<cfgVars, fs0, preVars, fsVars, selVars, cloneVars, pureVars, runResult, exitCode, raised>>

\* start_tomcat (lines 251-256 of run)
TomcatStage ==
    /\ pc = "tomcat"
    /\ stages' = Append(stages, "tomcat")
    /\ \E out \in {"ok", "no_script", "error"} :
          status' = IF out = "ok" THEN "OK" ELSE "WARNING"
    /\ pc' = "summary"
    /\ UNCHANGED <<eclipse_workspace, written, build_success>>
    /\ UNCHANGED <<cfgVars, fs0, preVars, fsVars, selVars, cloneVars, pureVars, runResult, exitCode, raised>>

\* the summary block (lines 258-271): it reads eclipse_workspace, which is unbound
\* unless setup_project returned a pair
Summary ==
    /\ pc = "summary"
    /\ Returned(IF eclipse_workspace = "unbound" THEN "Exception" ELSE "True")
    /\ raised' = IF eclipse_workspace = "unbound" THEN "summary" ELSE raised
    /\ UNCHANGED <<cfgVars, fs0, preVars, fsVars, selVars, cloneVars, pureVars>>
    /\ UNCHANGED <<stageVars, stages, exitCode>>

\* the interrupt is swallowed where it is delivered and run goes on (not what the code does)
Interrupt_swallowed ==
    /\ pc \in {"start", "validated", "select", "resolved", "repos", "clone", "resources", "ide",
               "gradle", "build", "deploy", "tomcat", "summary"}
    /\ runResult # "KeyboardInterrupt"
    /\ runResult' = "KeyboardInterrupt"
    /\ pc' = pc
    /\ UNCHANGED <<cfgVars, fs0, preVars, fsVars, selVars, cloneVars, pureVars>>
    /\ UNCHANGED <<stageVars, stages, exitCode, raised>>

\* every place of run but the prompt: a KeyboardInterrupt is no Exception and leaves run
Interrupt ==
    /\ pc \in {"start", "validated", "select", "resolved", "repos", "clone", "resources", "ide",
               "gradle", "build", "deploy", "tomcat", "summary"}
    /\ Returned("KeyboardInterrupt")
    /\ UNCHANGED <<cfgVars, fs0, preVars, fsVars, selVars, cloneVars, pureVars>>
    /\ UNCHANGED <<stageVars, stages, exitCode, raised>>

\* main exits 0 whatever run returned (not what the code does)
ExitCodeOf_always_zero(result) == 0

\* main (lines 274-291): sys.exit(0) when run returned True, sys.exit(1) otherwise
ExitCodeOf(result) == IF result = "True" THEN 0 ELSE 1

MainExit ==
    /\ pc = "returned"
    /\ exitCode' = ExitCodeOf(runResult)
    /\ pc' = "exited"
    /\ UNCHANGED <<cfgVars, fs0, preVars, fsVars, selVars, cloneVars, pureVars>>
    /\ UNCHANGED <<stageVars, stages, runResult, raised>>

Next ==
    \/ ValidatePrerequisites
    \/ PrerequisitesChecked
    \/ SelectStart
    \/ PromptInput
    \/ PromptInterrupt
    \/ CreateOrUse
    \/ Repos
    \/ CloneStart
    \/ CloneStep
    \/ ProcessCloneResults
    \/ ResourcesStage
    \/ IdeStage
    \/ GradleStage
    \/ BuildStage
    \/ DeployStage
    \/ TomcatStage
    \/ Summary
    \/ Interrupt
    \/ MainExit

(* --------------------------- initial states ---------------------------- *)
\* a repository list as _load_repositories builds it from a list of names and branches
RepoList(names, branches) ==
    [i \in 1..Len(names) |-> [name |-> names[i], branch |-> branches[i], index |-> i]]

SeqsUpTo(S, n) == UNION {[1..k -> S] : k \in 1..n}

\* base directories: absent, or holding some of `names` as directories or files
BaseStates(names) ==
    {[exists |-> FALSE, kind |-> [n \in names |-> "none"]]}
    \cup {[exists |-> TRUE, kind |-> k] : k \in [names -> Kinds]}

\* base directories: absent, or holding all of `names` as directories
DirBases(names) ==
    {[exists |-> FALSE, kind |-> [n \in names |-> "none"]],
     [exists |-> TRUE, kind |-> [n \in names |-> "dir"]]}

NoIdeFiles == [f \in IdeFileNames |-> "absent"]
NoProps == [exists |-> FALSE, content |-> <<>>]
\* a build.gradle with a sourceSets block holding main and test
SomeBuildText == <<"x", NL, SRC, OB, NL, NL, OB, CB, NL, NL, TEST, CB, NL, CB, NL>>
SomeProps == [exists |-> TRUE, content |-> <<"#", " ", KEY, "=", "x", NL>>]

\* the state main starts run in, over the given configurations and file systems
InitOver(bases, repoLists, indexes, trees, ides, markers, props) ==
    /\ \E b \in bases :
          /\ baseExists = b.exists
          /\ fsDirs = {n \in DOMAIN b.kind : b.kind[n] = "dir"}
          /\ fsFiles = {n \in DOMAIN b.kind : b.kind[n] = "file"}
    /\ fs0 = [baseExists |-> baseExists, fsDirs |-> fsDirs, fsFiles |-> fsFiles]
    /\ config_errors = <<>> /\ errors = <<>>
    /\ repositories \in repoLists
    /\ eclipse_repo_index \in indexes
    /\ wsTree \in trees
    /\ ideFiles \in ides
    /\ buildGradle \in markers
    /\ gradleProps \in props
    /\ buildText = IF buildGradle = "build.gradle" THEN SomeBuildText ELSE <<>>
    /\ existing = <<>> /\ next_ws = <<>> /\ asked = 0
    /\ workspace_path = <<>> /\ is_new = FALSE /\ lastInput = NoInput
    /\ pc = "start"
    /\ existing_repos = <<>> /\ missing_repos = <<>> /\ toClone = <<>>
    /\ clone_results = <<>> /\ gitLog = <<>> /\ cloning = <<>> /\ all_cloned = TRUE
    /\ eclipse_workspace = "unbound" /\ written = {} /\ build_success = FALSE
    /\ status = "none" /\ stages = <<>>
    /\ runResult = "running" /\ exitCode = -1 /\ raised = ""
    /\ applied = 0 /\ propsHistory = <<>> /\ textHistory = <<>>
    /\ template = <<>> /\ replacements = <<>> /\ rendered = <<>>
    /\ NoArtifacts

\* the pipeline: few workspaces, one or two repositories, every designated index
Init ==
    InitOver(DirBases({WsName(1), WsName(2)}),
             {RepoList(ns, [i \in 1..Len(ns) |-> ""]) :
                 ns \in {<<"A">>, <<"A", "B">>, <<"B", "A">>}},
             -1..2,
             {t \in [RepoNames -> {"none", "dir"}] : t["C"] = "none"},
             {NoIdeFiles},
             {"absent", "build.gradle", "build.gradle.kts"},
             {NoProps, SomeProps})

Spec == Init /\ [][Next]_vars

\* workspace resolution: every base directory over the names below
EntryNames == {WsName(v) : v \in 1..MaxSuffix} \cup {<<PREFIX, "0", "1">>, <<"x">>}

InitWs ==
    InitOver(BaseStates(EntryNames),
             {RepoList(<<"A">>, <<"">>)},
             {0},
             {[n \in RepoNames |-> IF n = "A" THEN "dir" ELSE "none"]},
             {NoIdeFiles},
             {"build.gradle"},
             {SomeProps})

SpecWs == InitWs /\ [][Next]_vars

\* reconciliation and cloning: every repository list, every workspace content
InitRepos ==
    InitOver(DirBases({WsName(1)}),
             {RepoList(ns, bs) : ns \in SeqsUpTo(RepoNames, MaxRepos),
                                 bs \in {[i \in 1..MaxRepos |-> IF i = 1 THEN "" ELSE "dev"]}},
             {0},
             [RepoNames -> Kinds],
             {NoIdeFiles},
             {"build.gradle"},
             {NoProps})

SpecRepos == InitRepos /\ [][Next]_vars

\* IDE project configuration: every combination of pre-existing IDE files
InitIde ==
    InitOver(DirBases({WsName(1)}),
             {RepoList(<<"A">>, <<"">>)},
             {0},
             {[n \in RepoNames |-> IF n = "A" THEN "dir" ELSE "none"], EmptyTree},
             [IdeFileNames -> {"absent", "custom", "generated"}],
             {"build.gradle"},
             {NoProps})

SpecIde == InitIde /\ [][Next]_vars

\* one application of configure_gradle_properties to an existing gradle.properties
GradleApply ==
    /\ pc = "gradle.properties"
    /\ applied < MaxApply
    /\ gradleProps.exists
    /\ propsHistory' = Append(propsHistory, gradleProps.content)
    /\ gradleProps' = [exists |-> TRUE,
                       content |-> configure_gradle_properties(gradleProps.content)]
    /\ applied' = applied + 1
    /\ UNCHANGED <<baseExists, fsDirs, fsFiles, wsTree, ideFiles, buildGradle, buildText>>
    /\ UNCHANGED <<cfgVars, fs0, preVars, selVars, cloneVars, runVars>>
    /\ UNCHANGED <<textHistory, template, replacements, rendered, artVars>>

NextGradle == GradleApply

\* a configured project directory whose files are studied one function at a time
InitFiles(position, props, texts, templates, maps) ==
    /\ baseExists = TRUE /\ fsDirs = {WsName(1)} /\ fsFiles = {}
    /\ fs0 = [baseExists |-> baseExists, fsDirs |-> fsDirs, fsFiles |-> fsFiles]
    /\ config_errors = <<>> /\ errors = <<>>
    /\ repositories = RepoList(<<"A">>, <<"">>) /\ eclipse_repo_index = 0
    /\ wsTree = [n \in RepoNames |-> IF n = "A" THEN "dir" ELSE "none"]
    /\ ideFiles = NoIdeFiles /\ buildGradle = "build.gradle"
    /\ gradleProps \in props
    /\ buildText \in texts
    /\ existing = <<>> /\ next_ws = <<>> /\ asked = 0
    /\ workspace_path = WsName(1) /\ is_new = FALSE /\ lastInput = NoInput
    /\ pc = position
    /\ existing_repos = <<>> /\ missing_repos = <<>> /\ toClone = <<>>
    /\ clone_results = <<>> /\ gitLog = <<>> /\ cloning = <<>> /\ all_cloned = TRUE
    /\ eclipse_workspace = "unbound" /\ written = {} /\ build_success = FALSE
    /\ status = "none" /\ stages = <<>>
    /\ runResult = "running" /\ exitCode = -1 /\ raised = ""
    /\ applied = 0 /\ propsHistory = <<>> /\ textHistory = <<>>
    /\ template \in templates /\ replacements \in maps /\ rendered = <<>>

\* gradle.properties: every content of up to MaxPropsLen tokens
InitGradle ==
    /\ NoArtifacts
    /\ InitFiles("gradle.properties",
              {[exists |-> TRUE, content |-> c] :
                   c \in UNION {[1..k -> PropChars] : k \in 0..MaxPropsLen}},
              {SomeBuildText}, {<<>>}, {<<>>})

SpecGradle == InitGradle /\ [][NextGradle]_vars

\* one application of configure_build_gradle to an existing build.gradle that can be
\* read and written
BuildGradleApply ==
    /\ pc = "build.gradle"
    /\ applied < MaxApply
    /\ textHistory' = Append(textHistory, buildText)
    /\ buildText' = configure_build_gradle(buildText, "ok").content
    /\ applied' = applied + 1
    /\ UNCHANGED <<baseExists, fsDirs, fsFiles, wsTree, ideFiles, buildGradle, gradleProps>>
    /\ UNCHANGED <<cfgVars, fs0, preVars, selVars, cloneVars, runVars>>
    /\ UNCHANGED <<propsHistory, template, replacements, rendered, artVars>>

NextBuildGradle == BuildGradleApply

\* the blocks a build.gradle is made of
GradleBlocks ==
    {<<NL, NL, TEST, "x", CB, NL>>,                      \* a top-level test task
     <<SRC, OB, NL, NL, TEST, CB, NL, CB, NL>>,          \* sourceSets with a test set
     <<SRC, OB, NL, OB, OB, CB, CB, NL, CB, NL>>,        \* sourceSets with main only
     <<SRC, OB, NL, NL, CO, TEST, CB, CC, NL, CB, NL>>,  \* test set already commented
     <<ECLIPSE, "x", CB, NL>>,                           \* an eclipse block
     <<ECLIPSE_NOSPACE, "x", CB, NL>>,                   \* the same, written eclipse{
     <<"x", NL>>}

RECURSIVE Concat(_)
Concat(blocks) == IF blocks = <<>> THEN <<>> ELSE Head(blocks) \o Concat(Tail(blocks))

\* build.gradle: every file of up to MaxBlocks blocks
InitBuildGradle ==
    /\ NoArtifacts
    /\ InitFiles("build.gradle", {NoProps},
              {Concat(bs) : bs \in UNION {[1..k -> GradleBlocks] : k \in 0..MaxBlocks}},
              {<<>>}, {<<>>})

SpecBuildGradle == InitBuildGradle /\ [][NextBuildGradle]_vars

\* process_template on a template file (resource_manager.py lines 34-46); an error
\* while reading is logged and raised again
Render ==
    /\ pc = "template"
    /\ \E io \in {"ok", "oserror"} :
          IF io = "ok"
          THEN /\ rendered' = process_template(template, replacements)
               /\ pc' = "rendered"
          ELSE /\ rendered' = rendered
               /\ pc' = "template raised"
    /\ UNCHANGED <<stageVars, stages, runResult, exitCode, raised>>
    /\ UNCHANGED <<cfgVars, fs0, preVars, fsVars, selVars, cloneVars>>
    /\ UNCHANGED <<applied, propsHistory, textHistory, template, replacements, artVars>>

NextTemplate == Render

\* the replacement dicts: the keys in any order, each with any of the values
ReplacementMaps ==
    {<<>>}
    \cup {<<[key |-> k, value |-> v]>> : k \in Keys, v \in Values}
    \cup {m \in {<<[key |-> k1, value |-> v1], [key |-> k2, value |-> v2]>> :
                      k1 \in Keys, k2 \in Keys, v1 \in Values, v2 \in Values} :
              m[1].key # m[2].key}

\* templates: every token sequence of up to MaxTemplateLen tokens
InitTemplate ==
    /\ NoArtifacts
    /\ InitFiles("template", {NoProps}, {SomeBuildText},
              UNION {[1..k -> TemplateTokens] : k \in 0..MaxTemplateLen},
              ReplacementMaps)

SpecTemplate == InitTemplate /\ [][NextTemplate]_vars

\* deploy_config_files in a workspace whose primary repository directory exists
DeployConfigFiles ==
    /\ pc = "deploy_config_files"
    /\ \E failAt \in FailPoints :
          LET r == deploy_config_files(wsTree[repositories[1].name], resources, failAt,
                                       targets)
          IN  /\ deploy_result' = [called |-> r.called, success |-> r.success,
                                    deployed_files |-> r.deployed_files]
              /\ targets' = r.targets
    /\ pc' = "deployed"
    /\ UNCHANGED <<stageVars, stages, runResult, exitCode, raised>>
    /\ UNCHANGED <<cfgVars, fs0, preVars, fsVars, selVars, cloneVars>>
    /\ UNCHANGED <<applied, propsHistory, textHistory, template, replacements, rendered>>
    /\ UNCHANGED <<resources, buildLibs, war_file>>

NextResources == DeployConfigFiles

\* every set of templates in the resources directory, every set of target files
\* left by an earlier run
InitResources ==
    /\ InitFiles("deploy_config_files", {NoProps}, {SomeBuildText}, {<<>>}, {<<>>})
    /\ resources \in SUBSET Templates
    /\ targets \in SUBSET {deployments[i].target : i \in 1..Len(deployments)}
    /\ deploy_result = [called |-> FALSE, success |-> FALSE, deployed_files |-> <<>>]
    /\ buildLibs = [exists |-> FALSE, listing |-> <<>>]
    /\ war_file = "unset"

SpecResources == InitResources /\ [][NextResources]_vars

\* the entries build/libs may hold
LibNames == {"a", "b", "c"}
LibEntries == [name : LibNames, ext : {"war", "jar"}, mtime : 1..MaxMtime]

\* listings: every order of up to MaxLibs entries with distinct names
Listings ==
    {l \in UNION {[1..k -> LibEntries] : k \in 0..MaxLibs} :
        \A i \in 1..Len(l) : \A j \in 1..Len(l) : i # j => l[i].name # l[j].name}

\* find_war_file on the project directory
FindWar ==
    /\ pc = "find_war_file"
    /\ war_file' = find_war_file(buildLibs)
    /\ pc' = "war looked up"
    /\ UNCHANGED <<stageVars, stages, runResult, exitCode, raised>>
    /\ UNCHANGED <<cfgVars, fs0, preVars, fsVars, selVars, cloneVars>>
    /\ UNCHANGED <<applied, propsHistory, textHistory, template, replacements, rendered>>
    /\ UNCHANGED <<resources, targets, deploy_result, buildLibs>>

NextWar == FindWar

\* build/libs absent, or present with any listing
InitWar ==
    /\ InitFiles("find_war_file", {NoProps}, {SomeBuildText}, {<<>>}, {<<>>})
    /\ resources = {} /\ targets = {}
    /\ deploy_result = [called |-> FALSE, success |-> FALSE, deployed_files |-> <<>>]
    /\ buildLibs \in {[exists |-> FALSE, listing |-> <<>>]}
                      \cup {[exists |-> TRUE, listing |-> l] : l \in Listings}
    /\ war_file = "unset"

SpecWar == InitWar /\ [][NextWar]_vars

(* ------------------------------ properties ----------------------------- *)
\* p is <prefix>n for the lowest positive n whose entry does not exist
LowestFree(p) ==
    \E n \in 1..(MaxSuffix + 2) :
        /\ p = WsName(n)
        /\ ~PathExists(WsName(n))
        /\ \A m \in 1..(n - 1) : PathExists(WsName(m))

\* C1: the next-new workspace path shown in the menu and the one returned as new is
\* the first free slot: the lowest positive suffix whose entry (directory or file) does
\* not exist under the base directory
C1_NextIsFirstFree ==
    /\ pc = "prompt" => LowestFree(next_ws)
    /\ (pc = "resolved" /\ is_new) => LowestFree(workspace_path)

\* suffixes 1 and 3 taken, 2 free: suffix 2 is returned
C1_Witness ==
    /\ pc = "resolved" /\ is_new
    /\ PathExists(WsName(1)) /\ ~PathExists(WsName(2)) /\ PathExists(WsName(3))
    /\ workspace_path = WsName(2)

Count(seq, x) == Cardinality({i \in 1..Len(seq) : seq[i] = x})
\* the repositories of seq appear in increasing configured position
InOrder(seq) == \A i \in 1..(Len(seq) - 1) : seq[i].index < seq[i + 1].index
Reconciled == pc = "clone" /\ ~is_new /\ clone_results = <<>>

\* C2: reconciliation puts every configured repository in exactly one of present and
\* missing, in present exactly when its directory exists, and keeps the configured order
\* within each of the two sequences
C2_Partition ==
    Reconciled =>
        /\ \A i \in 1..Len(repositories) :
              /\ Count(existing_repos, repositories[i]) + Count(missing_repos, repositories[i]) = 1
              /\ Count(existing_repos, repositories[i]) = 1 <=> wsTree[repositories[i].name] = "dir"
        /\ Len(existing_repos) + Len(missing_repos) = Len(repositories)
        /\ InOrder(existing_repos) /\ InOrder(missing_repos)

\* one repository present, two missing, one of them because its name is a plain file
C2_Witness ==
    /\ Reconciled
    /\ Len(existing_repos) = 1 /\ Len(missing_repos) = 2
    /\ \E i \in 1..2 : wsTree[missing_repos[i].name] = "file"

\* a line that is neither empty nor a number in 1..n+1
InvalidLine(line, n) ==
    /\ Strip(line) # <<>>
    /\ ~ParseInt(Strip(line)).ok \/ ParseInt(Strip(line)).val \notin 1..(n + 1)

C4_InterruptCreatesNew ==
    lastInput.kind = "interrupt" =>
        /\ pc # "prompt"
        /\ is_new
        /\ pc = "resolved" => (LowestFree(workspace_path) /\ runResult = "running")

\* the interrupt came at the second prompt, after an invalid line
C4_Witness ==
    /\ lastInput.kind = "interrupt" /\ pc = "resolved" /\ asked = 2 /\ is_new

\* the repository names of the git clone invocations, in the order they were made
CloneCalls(log) ==
    LET clones == SelectSeq(log, LAMBDA e : e[1] = "clone")
    IN  [i \in 1..Len(clones) |-> clones[i][2]]
ToCloneNames == [i \in 1..Len(toClone) |-> toClone[i].name]

\* C5: cloning attempts every repository of the list, in list order, also after a
\* failure, and returns exactly one result per repository, in that order
C5_EveryRepositoryAttempted ==
    /\ pc = "clone" =>
          /\ Len(clone_results) <= Len(toClone)
          /\ CloneCalls(gitLog) = SubSeq(ToCloneNames, 1, Len(clone_results) + Len(cloning))
    /\ pc = "resources" =>
          /\ Len(clone_results) = Len(toClone)
          /\ \A i \in 1..Len(toClone) : clone_results[i].repo = toClone[i].name
          /\ CloneCalls(gitLog) = ToCloneNames

\* three repositories, the second fails, the first and the third are cloned
C5_Witness ==
    /\ pc = "resources" /\ Len(toClone) = 3 /\ Len(clone_results) = 3
    /\ clone_results[1].success /\ ~clone_results[2].success /\ clone_results[3].success

\* cloning was needed, every repository was attempted and none was cloned
ZeroClonedDone ==
    /\ clone_results # <<>>
    /\ Len(clone_results) = Len(toClone)
    /\ \A i \in 1..Len(clone_results) : ~clone_results[i].success
    /\ pc \notin {"clone"}
LaterStages == {"resources", "ide", "gradle", "build", "deploy", "tomcat"}

C7_WorkspaceErrorFails ==
    raised = "workspace" =>
        /\ pc \in {"returned", "exited"}
        /\ runResult = "False"
        /\ stages = <<"workspace">>
        /\ gitLog = <<>> /\ clone_results = <<>>
        /\ pc = "exited" => exitCode = 1

\* creating the new workspace directory failed and the process has exited
C7_Witness ==
    /\ raised = "workspace" /\ is_new /\ pc = "exited" /\ exitCode = 1

\* the build stage found no build system and the run ended without an interrupt
BuildSkippedEnded ==
    /\ pc = "exited"
    /\ "build" \in Range(stages)
    /\ detect_build_system = "None"
    /\ runResult # "KeyboardInterrupt"

\* C8: when the build is skipped or fails, WAR deployment and Tomcat start are
\* still executed and the process exits with 0
C8_BuildSkippedStillDeploys ==
    BuildSkippedEnded =>
        /\ {"deploy", "tomcat"} \subseteq Range(stages)
        /\ exitCode = 0

\* C9: IDE configuration creates a file only when it is absent; a file that is
\* already present is left as it is, for each of the five generated files
C9_CreateIfAbsent ==
    [][pc = "ide" =>
          \A f \in IdeFileNames :
              ideFiles[f] # "absent" => (ideFiles'[f] = ideFiles[f] /\ f \notin written')]_vars

\* the lines of content that set the key (not commented out)
ActiveLines(content) ==
    {i \in 1..Len(ReadLines(content)) : IsActiveLine(ReadLines(content)[i])}
AfterFirstApply == IF applied = 1 THEN gradleProps.content ELSE propsHistory[2]

\* C10: applied to a file with at most one active line for the key, the result has
\* exactly one active line for the key, and that line sets the configured Java home
C10_NeverDuplicatesKey ==
    (applied >= 1 /\ Cardinality(ActiveLines(propsHistory[1])) <= 1) =>
        /\ Cardinality(ActiveLines(AfterFirstApply)) = 1
        /\ \A i \in ActiveLines(AfterFirstApply) :
              ReadLines(AfterFirstApply)[i] = JavaHomeLine

\* the eclipse blocks of a build.gradle, however the opening brace is spaced
EclipseBlocks(c) == {i \in 1..Len(c) : c[i] \in {ECLIPSE, ECLIPSE_NOSPACE}}

\* C11: applied repeatedly to a build.gradle holding at most one eclipse block,
\* configure_build_gradle leaves at most one eclipse block in the file, and the second
\* and later applications leave the content unchanged
C11_EclipseBlockIdempotent ==
    (pc = "build.gradle" /\ applied >= 1 /\ Cardinality(EclipseBlocks(textHistory[1])) <= 1) =>
        /\ Cardinality(EclipseBlocks(buildText)) <= 1
        /\ applied >= 2 => buildText = textHistory[applied]

\* prerequisites, workspace selection and cloning are behind, and the process has
\* exited without having been interrupted
AdvisoryStagesEnded ==
    /\ pc = "exited"
    /\ "resources" \in Range(stages)
    /\ runResult # "KeyboardInterrupt"

\* C12: once the workspace is resolved, the run ends with overall success (run returns
\* True, exit code 0) whatever the outcomes of the advisory stages are
C12_AdvisoryFailuresStillSucceed ==
    AdvisoryStagesEnded => (runResult = "True" /\ exitCode = 0)

\* C13: no exception raised in a pipeline stage escapes run: run always proceeds to
\* its normal return
C13_NoStageExceptionEscapes == runResult # "Exception"

\* the value of key in the dict, <<>> when it is not a key
ValueOf(items, key) ==
    IF \E i \in 1..Len(items) : items[i].key = key
    THEN items[CHOOSE i \in 1..Len(items) : items[i].key = key].value
    ELSE <<>>
IsKey(items, key) == \E i \in 1..Len(items) : items[i].key = key

RECURSIVE Simultaneous(_, _)
\* every placeholder of a key replaced by the key's value, everything else verbatim
Simultaneous(content, items) ==
    IF content = <<>> THEN <<>>
    ELSE (IF Head(content)[1] = "${}" /\ IsKey(items, Head(content)[2])
          THEN ValueOf(items, Head(content)[2]) ELSE <<Head(content)>>)
            \o Simultaneous(Tail(content), items)

\* no value of the dict holds a placeholder of one of its keys
PlainValues(items) ==
    \A i \in 1..Len(items) : \A j \in 1..Len(items[i].value) :
        ~(items[i].value[j][1] = "${}" /\ IsKey(items, items[i].value[j][2]))

BaseUntouched == [baseExists |-> baseExists, fsDirs |-> fsDirs, fsFiles |-> fsFiles] = fs0

\* C15: when prerequisite validation finds an error that is not a warning (a missing
\* JAVA_HOME or TOMCAT_HOME path, Git not installed), run returns False before workspace
\* selection: no stage starts, no directory is created, the process exits with 1; and
\* run never fails there on warnings alone
C15_PrerequisiteFailureStops ==
    /\ (errors # <<>> /\ pc \notin {"start", "validated"} /\ runResult # "KeyboardInterrupt") =>
          /\ pc \in {"returned", "exited"}
          /\ runResult = "False"
          /\ stages = <<>> /\ gitLog = <<>> /\ workspace_path = <<>>
          /\ BaseUntouched
          /\ pc = "exited" => exitCode = 1
    /\ (runResult = "False" /\ stages = <<>>) => \E i \in 1..Len(errors) : ~errors[i].warning

\* JAVA_HOME is missing and ECLIPSE_PATH gave a warning: the process exited with 1
C15_Witness ==
    /\ pc = "exited" /\ exitCode = 1 /\ stages = <<>>
    /\ \E i \in 1..Len(errors) : errors[i].what = "JAVA_HOME"
    /\ \E i \in 1..Len(config_errors) : config_errors[i].warning

\* C16: a base directory that does not exist is not an error: no workspace is
\* listed, no prompt is shown, the workspace with suffix 1 is returned as new, and
\* create_workspace creates it together with the missing base directory
C16_MissingBaseIsEmpty ==
    ~fs0.baseExists =>
        /\ pc # "prompt" /\ asked = 0 /\ existing = <<>>
        /\ pc = "resolved" => (workspace_path = WsName(1) /\ is_new /\ runResult = "running")
        /\ raised = "workspace" => (workspace_path = WsName(1) /\ is_new)
        /\ (pc = "repos" \/ "clone" \in Range(stages)) =>
              (baseExists /\ fsDirs = {WsName(1)} /\ workspace_path = WsName(1) /\ is_new)

\* the base directory was missing and now holds the new workspace with suffix 1
C16_Witness ==
    /\ ~fs0.baseExists /\ pc = "repos"
    /\ baseExists /\ fsDirs = {WsName(1)} /\ workspace_path = WsName(1) /\ is_new

\* the line that ended the prompt loop is a number in 1..len(existing)
ChoseExisting ==
    /\ lastInput.kind = "line"
    /\ ParseInt(Strip(lastInput.line)).ok
    /\ ParseInt(Strip(lastInput.line)).val \in 1..Len(existing)

\* C17: workspace resolution never deletes or renames a directory and creates one
\* only for a new workspace; choosing a listed workspace returns that workspace with
\* is_new = FALSE and leaves the directories under the base path as they were
C17_ResolutionFrame ==
    /\ fs0.fsDirs \subseteq fsDirs /\ fsFiles = fs0.fsFiles
    /\ pc \in {"start", "validated", "select", "prompt", "resolved"} => BaseUntouched
    /\ ~BaseUntouched => (is_new /\ fsDirs = fs0.fsDirs \cup {workspace_path})
    /\ (pc = "resolved" /\ ChoseExisting) =>
          (~is_new /\ workspace_path = existing[ParseInt(Strip(lastInput.line)).val])
    /\ (~is_new /\ workspace_path # <<>>) => (workspace_path \in fs0.fsDirs /\ BaseUntouched)

\* the second of two listed workspaces was chosen and is in use, nothing was created
C17_Witness ==
    /\ pc = "repos" /\ ~is_new
    /\ Len(existing) >= 2 /\ workspace_path = existing[2]
    /\ BaseUntouched

\* C18: no two entries of the loaded repository list share a name once the names
\* are in use as checkout directories (from the clone stage on)
C18_UniqueRepositoryNames ==
    "clone" \in Range(stages) =>
        \A i \in 1..Len(repositories) : \A j \in 1..Len(repositories) :
            i # j => repositories[i].name # repositories[j].name

\* the .war entries of build/libs
Wars == Range(WarFiles(buildLibs.listing))

\* C19: find_war_file returns the .war file modified last, whatever the listing order,
\* and None only when build/libs holds no .war file
C19_MostRecentWar ==
    pc = "war looked up" =>
        IF buildLibs.exists /\ Wars # {}
        THEN \E w \in Wars : /\ w.name = war_file
                             /\ \A o \in Wars : o.mtime <= w.mtime
        ELSE war_file = "None"

\* C20: with the primary repository directory in place and nothing raising, missing
\* templates do not make deploy_config_files fail, whichever templates are missing
C20_MissingTemplatesNoError ==
    (deploy_result.called /\ wsTree[repositories[1].name] = "dir"
        /\ Len(deploy_result.deployed_files) = Cardinality(resources))
    => deploy_result.success

DistinctToClone ==
    \A i \in 1..Len(toClone) : \A j \in 1..Len(toClone) :
        i # j => toClone[i].name # toClone[j].name

\* a git checkout was run for the repository
CheckoutAttempted(name) == <<"checkout", name>> \in Range(gitLog)

\* C23: a checkout is attempted only for a repository with a branch, and a repository
\* whose checkout was attempted (its clone succeeded) is reported as cloned, whatever
\* the checkout did; a repository reported as failed had no checkout attempted
C23_CheckoutNeverChangesResult ==
    DistinctToClone =>
        \A i \in 1..Len(clone_results) :
            /\ CheckoutAttempted(toClone[i].name) => toClone[i].branch # ""
            /\ CheckoutAttempted(toClone[i].name) <=> clone_results[i].success /\ toClone[i].branch # ""

\* the fixed order of the stages of run
StageOrder == <<"workspace", "clone", "resources", "ide", "gradle", "build", "deploy", "tomcat">>
Rank(stage) == CHOOSE k \in 1..Len(StageOrder) : StageOrder[k] = stage

\* C22: the stages started so far are in the fixed order with none started twice, a
\* stage is started only when no clone of the stage before is still running, and at
\* most one clone runs at a time
C22_StagesSequential ==
    /\ \A i \in 1..Len(stages) : stages[i] \in Range(StageOrder)
    /\ \A i \in 1..Len(stages) : \A j \in 1..Len(stages) :
          i < j => Rank(stages[i]) < Rank(stages[j])
    /\ Len(cloning) <= 1
    /\ cloning # <<>> => stages[Len(stages)] = "clone"
    /\ pc \in {"resources", "ide", "gradle", "build", "deploy", "tomcat", "summary"} =>
          /\ cloning = <<>>
          /\ Len(clone_results) = Len(toClone)

\* a run that started all eight stages, after cloning two repositories one by one
C22_Witness ==
    /\ stages = StageOrder
    /\ Len(clone_results) = 2
    /\ pc = "returned"

\* the names of the repositories classified missing, in order
MissingNames == [i \in 1..Len(missing_repos) |-> missing_repos[i].name]

\* C24: in an existing workspace the clones invoked are those of the repositories
\* classified missing, in their configured order, all of them once the clone stage is
\* over; no repository classified present is cloned; with nothing missing no clone is
\* invoked and run goes on to the resource stage
C24_ClonesExactlyMissing ==
    ("clone" \in Range(stages) /\ ~is_new) =>
        /\ toClone = missing_repos
        /\ InOrder(missing_repos)
        /\ Len(CloneCalls(gitLog)) <= Len(missing_repos)
        /\ CloneCalls(gitLog) = SubSeq(MissingNames, 1, Len(CloneCalls(gitLog)))
        /\ "resources" \in Range(stages) => CloneCalls(gitLog) = MissingNames
        /\ \A i \in 1..Len(existing_repos) :
              /\ wsTree[existing_repos[i].name] = "dir"
              /\ <<"clone", existing_repos[i].name>> \notin Range(gitLog)
        /\ Reconciled => \A i \in 1..Len(missing_repos) : wsTree[missing_repos[i].name] # "dir"
        /\ missing_repos = <<>> =>
              /\ gitLog = <<>> /\ clone_results = <<>>
              /\ runResult # "False"
              /\ (pc \in {"returned", "exited"} /\ "resources" \notin Range(stages))
                    => runResult = "KeyboardInterrupt"

\* an existing workspace with one repository present and two missing: the two were
\* cloned in order, the present one was not
C24_Witness ==
    /\ ~is_new /\ "resources" \in Range(stages)
    /\ Len(existing_repos) = 1 /\ Len(missing_repos) = 2
    /\ CloneCalls(gitLog) = MissingNames

\* C25: once a KeyboardInterrupt was delivered outside the prompt, run is over: no stage
\* starts, nothing is cloned, written or configured any more, run does not end with
\* its success summary, and main exits with code 1
C25_InterruptAborts ==
    /\ [](runResult = "KeyboardInterrupt" =>
             /\ pc \in {"returned", "exited"}
             /\ pc = "exited" <=> exitCode = 1)
    /\ [][runResult = "KeyboardInterrupt" =>
             /\ runResult' = "KeyboardInterrupt"
             /\ stages' = stages
             /\ UNCHANGED <<fsVars, cloneVars, stageVars>>]_vars

\* interrupted while the second clone was running: main has exited with code 1 and
\* the resource stage never started
C25_Witness ==
    /\ runResult = "KeyboardInterrupt" /\ pc = "exited" /\ exitCode = 1
    /\ cloning # <<>> /\ Len(clone_results) = 1
    /\ stages = <<"workspace", "clone">>

\* C26: with a designated index above the configured repositories nothing is created
\* or cloned: the base directory is as it was at the start and no git command ran
C26_DesignatedIndexRejectedEarly ==
    eclipse_repo_index >= Len(repositories) =>
        /\ gitLog = <<>>
        /\ baseExists = fs0.baseExists /\ fsDirs = fs0.fsDirs
        /\ raised # "gradle"

\* C27: rendering is one simultaneous substitution: the output is the template with
\* each placeholder of a key replaced by that key's value, and text that came in with a
\* value is not expanded again, whatever the order of the keys
C27_SimultaneousSubstitution ==
    pc = "rendered" => rendered = Simultaneous(template, replacements)

\* C28: configure_gradle_properties is idempotent: a second application leaves the
\* file as the first one wrote it
C28_GradlePropertiesIdempotent ==
    applied = 2 /\ pc = "gradle.properties" => gradleProps.content = propsHistory[2]

\* the number typed on the line that ended the prompt loop, if it was a number
ChosenNumber == ParseInt(Strip(lastInput.line))

\* C29: the listed workspaces are sorted by name; is_new = FALSE only comes with a number
\* in 1..len(existing) and the workspace listed at that position; is_new = TRUE never
\* comes with a listed workspace; 0, a negative number or a number above
\* len(existing) + 1 never ends the prompt loop
C29_SelectionMatchesListing ==
    pc = "resolved" =>
        /\ \A i \in 1..Len(existing) : \A j \in 1..Len(existing) :
              i < j => LexLess(existing[i], existing[j])
        /\ ~is_new =>
              /\ lastInput.kind = "line" /\ ChosenNumber.ok
              /\ ChosenNumber.val \in 1..Len(existing)
              /\ workspace_path = existing[ChosenNumber.val]
        /\ is_new => workspace_path \notin Range(existing)
        /\ (lastInput.kind = "line" /\ ChosenNumber.ok) =>
              ChosenNumber.val \in 1..(Len(existing) + 1)

\* after a rejected line, '1' chose the first of three listed workspaces, which sorts
\* before the other two
C29_Witness ==
    /\ pc = "resolved" /\ ~is_new /\ asked = 2
    /\ Len(existing) = 3 /\ ChosenNumber.val = 1
    /\ workspace_path = existing[1]

====
